---- MODULE Spec2Model ----
(***************************************************************************)
(* A model of the orbit camera controller of src/OrbitControls.js.         *)
(*                                                                         *)
(* Number representation.                                                  *)
(*   - Angles are integers in "ticks": Math.PI is PI ticks.  One pixel of  *)
(*     pointer travel rotates by TWO_PI / clientHeight = 1 tick, and the   *)
(*     margin makeSafe() keeps from the poles is SafeEps = 1 tick.         *)
(*   - World lengths on the target side (target, cursor, panOffset) are    *)
(*     integer vectors in units of 0.1, so MIN_TARGET_HEIGHT is 1.         *)
(*   - Scalars that are multiplied and divided (spherical.radius, scale,   *)
(*     the distance bounds) are JavaScript numbers restricted to the       *)
(*     non-negative rationals plus Infinity and NaN ("Num" below), with    *)
(*     the IEEE rules for *, /, Math.min, Math.max and comparisons.        *)
(*   - camera.position is kept as its offset from the target, in the polar *)
(*     form setFromSpherical() builds it from; setFromVector3() reads the  *)
(*     polar form back with atan2's normalisation of theta.                *)
(***************************************************************************)
EXTENDS Integers, Sequences, FiniteSets, TLC

(***************************************************************************)
(* Program constants                                                       *)
(***************************************************************************)
PI == 200

TWO_PI == 2 * PI

MIN_TARGET_HEIGHT == 1

SafeEps == 1

ClientHeight == 400

STATES == {"NONE", "ROTATE", "DOLLY", "PAN", "TOUCH_ROTATE", "TOUCH_PAN",
           "TOUCH_DOLLY_PAN", "TOUCH_DOLLY_ROTATE"}

KEYS == [LEFT |-> "ArrowLeft", UP |-> "ArrowUp", RIGHT |-> "ArrowRight",
         BOTTOM |-> "ArrowDown"]

MOUSE_BUTTONS == [LEFT |-> "ROTATE", MIDDLE |-> "DOLLY", RIGHT |-> "PAN"]

\* TOUCHES with the other behaviour of each count
TOUCHESPanFirst == [ONE |-> "PAN", TWO |-> "DOLLY_ROTATE"]

TOUCHES == [ONE |-> "ROTATE", TWO |-> "DOLLY_PAN"]

(***************************************************************************)
(* JavaScript numbers: non-negative rationals, Infinity, NaN               *)
(***************************************************************************)
RECURSIVE Gcd(_, _)
Gcd(a, b) == IF b = 0 THEN a ELSE Gcd(b, a % b)

Abs(i) == IF i < 0 THEN -i ELSE i

Fin(n, d) == LET g == Gcd(n, d) IN [k |-> "fin", n |-> n \div g, d |-> d \div g]

Infinity == [k |-> "inf", n |-> 0, d |-> 1]

NaN == [k |-> "nan", n |-> 0, d |-> 1]

Zero == Fin(0, 1)

One == Fin(1, 1)

IsFin(a) == a.k = "fin"

IsNaN(a) == a.k = "nan"

\* a * b
Mul(a, b) ==
    IF IsNaN(a) \/ IsNaN(b) THEN NaN
    ELSE IF IsFin(a) /\ IsFin(b) THEN Fin(a.n * b.n, a.d * b.d)
    ELSE IF (IsFin(a) /\ a.n = 0) \/ (IsFin(b) /\ b.n = 0) THEN NaN
    ELSE Infinity

\* a / b
Div(a, b) ==
    IF IsNaN(a) \/ IsNaN(b) THEN NaN
    ELSE IF IsFin(a) /\ IsFin(b)
         THEN IF b.n = 0 THEN (IF a.n = 0 THEN NaN ELSE Infinity)
              ELSE Fin(a.n * b.d, a.d * b.n)
    ELSE IF IsFin(a) THEN Zero
    ELSE IF IsFin(b) THEN Infinity
    ELSE NaN

\* a < b and a <= b; every comparison with NaN is false
Lt(a, b) ==
    /\ ~IsNaN(a) /\ ~IsNaN(b)
    /\ IsFin(a)
    /\ (IsFin(b) => a.n * b.d < b.n * a.d)

Le(a, b) ==
    /\ ~IsNaN(a) /\ ~IsNaN(b)
    /\ (IsFin(a) /\ IsFin(b) => a.n * b.d <= b.n * a.d)
    /\ (IsFin(b) => IsFin(a))

MathMin(a, b) == IF IsNaN(a) \/ IsNaN(b) THEN NaN ELSE IF Lt(b, a) THEN b ELSE a

MathMax(a, b) == IF IsNaN(a) \/ IsNaN(b) THEN NaN ELSE IF Lt(a, b) THEN b ELSE a

\* Math.pow(a, e) for an integer exponent e >= 0
RECURSIVE MathPow(_, _)
MathPow(a, e) == IF e = 0 THEN One ELSE Mul(a, MathPow(a, e - 1))

\* Math.sqrt(dx * dx + dy * dy), on the contact separations that have an exact root
IsExactHypot(dx, dy) == \E r \in 0..(Abs(dx) + Abs(dy)) : r * r = dx * dx + dy * dy

Hypot(dx, dy) == CHOOSE r \in 0..(Abs(dx) + Abs(dy)) : r * r = dx * dx + dy * dy

\* a number rounded to the 0.1 lattice, away from zero
ToLattice(a) == (a.n + a.d - 1) \div a.d

(***************************************************************************)
(* Vectors.  A Vector3 on the target side is an integer triple or NaN3     *)
(* (some component is not a finite number).                                *)
(***************************************************************************)
Vec2(x, y) == [x |-> x, y |-> y]

Vec3(x, y, z) == [nan |-> FALSE, x |-> x, y |-> y, z |-> z]

NaN3 == [nan |-> TRUE, x |-> 0, y |-> 0, z |-> 0]

Zero3 == Vec3(0, 0, 0)

Add3(a, b) == IF a.nan \/ b.nan THEN NaN3 ELSE Vec3(a.x + b.x, a.y + b.y, a.z + b.z)

Sub3(a, b) == IF a.nan \/ b.nan THEN NaN3 ELSE Vec3(a.x - b.x, a.y - b.y, a.z - b.z)

LengthSq(v) == v.x * v.x + v.y * v.y + v.z * v.z

\* |c| * L / sqrt(s) rounded towards zero, resp. away from zero, with the sign of c
ScaleDown(c, L, s) ==
    LET k == CHOOSE j \in 0..(Abs(c) + L) :
                 /\ j * j * s <= c * c * L * L
                 /\ (j + 1) * (j + 1) * s > c * c * L * L
    IN IF c < 0 THEN -k ELSE k

ScaleUp(c, L, s) ==
    LET k == CHOOSE j \in 0..(Abs(c) + L) :
                 /\ j * j * s >= c * c * L * L
                 /\ (j = 0 \/ (j - 1) * (j - 1) * s < c * c * L * L)
    IN IF c < 0 THEN -k ELSE k

(***************************************************************************)
(* THREE.Spherical and the Vector3 <-> Spherical conversions               *)
(***************************************************************************)
\* a Spherical: radius (a Num), theta and phi in ticks; nan: theta and phi are NaN
Spherical(radius, theta, phi) == [radius |-> radius, theta |-> theta, phi |-> phi, nan |-> FALSE]

NaNSpherical == [radius |-> NaN, theta |-> 0, phi |-> 0, nan |-> TRUE]

\* Math.atan2 returns an angle of [-PI, PI]
WrapAngle(t) ==
    IF -PI <= t /\ t <= PI THEN t
    ELSE LET m == t % TWO_PI IN IF m > PI THEN m - TWO_PI ELSE m

\* Vector3.setFromSpherical: the vector with this polar form.  A radius that is
\* not finite gives components that are not finite numbers.
setFromSpherical(s) ==
    IF s.nan \/ ~IsFin(s.radius) THEN NaNSpherical ELSE s

\* Spherical.setFromVector3 of a vector given by its polar form: the zero vector
\* reads as (0, 0, 0), theta is atan2's, a NaN vector reads as NaN throughout
setFromVector3(v) ==
    IF v.nan \/ ~IsFin(v.radius) THEN NaNSpherical
    ELSE IF v.radius.n = 0 THEN Spherical(Zero, 0, 0)
    ELSE Spherical(v.radius, WrapAngle(v.theta), v.phi)

\* Spherical.makeSafe: phi = max(EPS, min(PI - EPS, phi))
makeSafe(s) ==
    IF s.nan THEN s
    ELSE [s EXCEPT !.phi = IF s.phi > PI - SafeEps THEN PI - SafeEps
                            ELSE IF s.phi < SafeEps THEN SafeEps ELSE s.phi]

\* Vector3.clampLength(min, max) on an integer vector: the length is kept when
\* it is inside the bounds; otherwise the vector is rescaled to the bound, each
\* component rounded towards zero when shrinking and away from zero when growing
clampLength(v, min, max) ==
    IF v.nan \/ IsNaN(min) \/ IsNaN(max) THEN NaN3
    ELSE LET s == LengthSq(v)
             overMax == IsFin(max) /\ s > max.n * max.n
             \* Math.min(max, length) < min
             underMin == IF overMax THEN Lt(max, min)
                         ELSE ~IsFin(min) \/ s < min.n * min.n
             L == IF underMin THEN min ELSE max
         IN IF ~overMax /\ ~underMin THEN v
            ELSE IF ~IsFin(L) THEN NaN3
            ELSE IF s = 0 THEN v
            ELSE IF L.n * L.n <= s
                 THEN Vec3(ScaleDown(v.x, L.n, s), ScaleDown(v.y, L.n, s), ScaleDown(v.z, L.n, s))
                 ELSE Vec3(ScaleUp(v.x, L.n, s), ScaleUp(v.y, L.n, s), ScaleUp(v.z, L.n, s))

(***************************************************************************)
(* The controller's operations, as functions of a record c of its fields   *)
(***************************************************************************)
\* this.dispatchEvent(event)
dispatchEvent(c, type) == [c EXCEPT !.emitted = Append(@, type)]

\* const clampDistance = (dist) => Math.max(this.minDistance, Math.min(this.maxDistance, dist))
clampDistance(c, dist) == MathMax(c.cfg.minDistance, MathMin(c.cfg.maxDistance, dist))

\* this.getDistance(): camera.position.distanceTo(target)
getDistance(c) == IF c.target.nan THEN NaN ELSE setFromVector3(c.position).radius

\* e's value handed to F: a statement that runs on the state the one before it left
Then(e, F(_)) == CHOOSE r \in {F(x) : x \in {e}} : TRUE

\* update(), lines 128-139: offset = position - target is read into spherical,
\* and the pending rotation is added
readOffset(c) ==
    LET read == setFromVector3(IF c.target.nan THEN NaNSpherical ELSE c.position)
    IN [c EXCEPT !.spherical = IF read.nan THEN read
                               ELSE [read EXCEPT !.theta = @ + c.sphericalDelta.theta,
                                                 !.phi = @ + c.sphericalDelta.phi]]

\* update() holding theta to each finite bound on its own
restrictThetaOneSided(c) ==
    LET lo == c.cfg.minAzimuthAngle
        hi == c.cfg.maxAzimuthAngle
        theta == c.spherical.theta
    IN IF c.spherical.nan THEN c
       ELSE LET inner == IF hi.fin /\ theta > hi.v THEN hi.v ELSE theta
            IN [c EXCEPT !.spherical.theta = IF lo.fin /\ inner < lo.v THEN lo.v ELSE inner]

\* update() without the min > max branch of lines 151-154
restrictThetaNoWrap(c) ==
    LET lo == c.cfg.minAzimuthAngle
        hi == c.cfg.maxAzimuthAngle
        min == IF lo.v < -PI THEN lo.v + TWO_PI ELSE IF lo.v > PI THEN lo.v - TWO_PI ELSE lo.v
        max == IF hi.v < -PI THEN hi.v + TWO_PI ELSE IF hi.v > PI THEN hi.v - TWO_PI ELSE hi.v
        theta == c.spherical.theta
    IN IF ~(lo.fin /\ hi.fin) \/ c.spherical.nan THEN c
       ELSE LET inner == IF theta > max THEN max ELSE theta
            IN [c EXCEPT !.spherical.theta = IF inner < min THEN min ELSE inner]

\* update(), lines 141-155: restrict theta to be between desired limits
restrictTheta(c) ==
    LET lo == c.cfg.minAzimuthAngle
        hi == c.cfg.maxAzimuthAngle
        min == IF lo.v < -PI THEN lo.v + TWO_PI ELSE IF lo.v > PI THEN lo.v - TWO_PI ELSE lo.v
        max == IF hi.v < -PI THEN hi.v + TWO_PI ELSE IF hi.v > PI THEN hi.v - TWO_PI ELSE hi.v
        theta == c.spherical.theta
    IN IF ~(lo.fin /\ hi.fin) \/ c.spherical.nan THEN c
       ELSE IF min <= max
            THEN LET inner == IF theta > max THEN max ELSE theta
                 IN [c EXCEPT !.spherical.theta = IF inner < min THEN min ELSE inner]
            ELSE [c EXCEPT !.spherical.theta = IF 2 * theta > min + max
                                               THEN (IF theta < min THEN min ELSE theta)
                                               ELSE (IF theta > max THEN max ELSE theta)]

\* update() without line 158: phi is made safe but not held to the polar limits
restrictPhiUnclamped(c) ==
    IF c.spherical.nan THEN c ELSE [c EXCEPT !.spherical = makeSafe(@)]

\* update(), lines 157-160: restrict phi to be between desired limits, makeSafe
restrictPhi(c) ==
    LET phi == c.spherical.phi
        inner == IF phi > c.cfg.maxPolarAngle THEN c.cfg.maxPolarAngle ELSE phi
    IN IF c.spherical.nan THEN c
       ELSE [c EXCEPT !.spherical =
                 makeSafe([@ EXCEPT !.phi = IF inner < c.cfg.minPolarAngle
                                            THEN c.cfg.minPolarAngle ELSE inner])]

\* update(), lines 162-170: pan the target, clamp it around the cursor, keep it
\* above the ground.  Math.max(NaN, MIN_TARGET_HEIGHT) is NaN.
moveTarget(c) ==
    LET panned == Add3(c.target, c.panOffset)
        clamped == Then(Sub3(panned, c.cfg.cursor),
                        LAMBDA v : Add3(clampLength(v, c.cfg.minTargetRadius,
                                                    c.cfg.maxTargetRadius), c.cfg.cursor))
    IN [c EXCEPT !.target = Then(clamped, LAMBDA t :
                     IF t.nan THEN NaN3
                     ELSE [t EXCEPT !.y = IF @ < MIN_TARGET_HEIGHT
                                          THEN MIN_TARGET_HEIGHT ELSE @])]

\* update(), lines 172-173: the radius is scaled and clamped
\* setRadius without clampDistance
setRadiusUnclamped(c) ==
    LET prevRadius == c.spherical.radius
        radius == Mul(prevRadius, c.scale)
    IN [c EXCEPT !.spherical.radius = radius,
                 !.zoomChanged = (prevRadius # radius \/ IsNaN(radius))]

setRadius(c) ==
    LET prevRadius == c.spherical.radius
        radius == clampDistance(c, Mul(prevRadius, c.scale))
    IN [c EXCEPT !.spherical.radius = radius,
                 !.zoomChanged = (prevRadius # radius \/ IsNaN(radius))]

\* update(), lines 175-182: position = target + offset, lookAt(target)
place(c) ==
    [c EXCEPT !.position = IF c.target.nan THEN NaNSpherical
                           ELSE setFromSpherical(c.spherical)]

\* update() without line 188: the pending scale stays
resetKeepsScale(c) ==
    [c EXCEPT !.sphericalDelta = [theta |-> 0, phi |-> 0],
              !.panOffset = Zero3,
              !.updates = @ + 1,
              !.idle = /\ c.sphericalDelta = [theta |-> 0, phi |-> 0]
                       /\ c.panOffset = Zero3
                       /\ c.scale = One]

\* update(), lines 184-188: the pending inputs are consumed
reset(c) ==
    [c EXCEPT !.sphericalDelta = [theta |-> 0, phi |-> 0],
              !.panOffset = Zero3,
              !.scale = One,
              !.updates = @ + 1,
              !.idle = /\ c.sphericalDelta = [theta |-> 0, phi |-> 0]
                       /\ c.panOffset = Zero3
                       /\ c.scale = One]

\* update(), lines 124-126: lastPosition, lastQuaternion and lastTargetPosition
\* are locals of update(), so on every call they are the zero vector and the
\* identity quaternion
lastPosition == Zero3

lastTargetPosition == Zero3

\* lastTargetPosition.distanceToSquared(target) > EPS: EPS = 1e-6 is below the
\* 0.01 resolution of a squared lattice distance
targetMoved(last, target) == ~target.nan /\ LengthSq(Sub3(target, last)) > 0

\* lastPosition.distanceToSquared(camera.position) > EPS with lastPosition the
\* zero vector: target + offset is away from the origin unless the offset
\* points straight down the y axis with the target's height as its length
positionMoved(target, offset) ==
    /\ ~target.nan /\ ~offset.nan
    /\ ~(/\ target.x = 0 /\ target.z = 0
         /\ offset.phi >= PI - SafeEps
         /\ offset.radius = Fin(Abs(target.y), 1) /\ target.y >= 0)

\* 8 * (1 - lastQuaternion.dot(camera.quaternion)) > EPS with lastQuaternion the
\* identity: lookAt leaves the identity only when the camera looks down -z
quaternionMoved(target, offset) ==
    /\ ~target.nan /\ ~offset.nan
    /\ ~(offset.radius.n > 0 /\ WrapAngle(offset.theta) = 0 /\ 2 * offset.phi = PI)

\* update(), lines 189-200: notify "change" when the pose left the last one
notifyChange(c) ==
    IF \/ c.zoomChanged
       \/ positionMoved(c.target, c.position)
       \/ quaternionMoved(c.target, c.position)
       \/ targetMoved(lastTargetPosition, c.target)
    THEN dispatchEvent(c, "change")
    ELSE c

\* const update = () => { ... }
update(c) ==
    Then(Then(Then(Then(Then(Then(Then(Then(c, readOffset), restrictTheta), restrictPhi),
                             moveTarget), setRadius), place), reset), notifyChange)

\* a handler stops at a TypeError (reading .x of undefined); what it did before stays
Throw(c) == [c EXCEPT !.threw = TRUE]

\* const getZoomScale = (delta) => Math.pow(0.95, this.zoomSpeed * Math.abs(delta * 0.01))
\* for the deltas that give an integer exponent
ExactZoom(cfg, delta) == (cfg.zoomSpeed * Abs(delta)) % 100 = 0

getZoomScale(c, delta) == MathPow(Fin(19, 20), (c.cfg.zoomSpeed * Abs(delta)) \div 100)

rotateLeft(c, angle) == [c EXCEPT !.sphericalDelta.theta = @ - angle]

rotateUp(c, angle) == [c EXCEPT !.sphericalDelta.phi = @ - angle]

\* RotateAngle over half the element's height
RotateAngleByHalfHeight(d) == (TWO_PI * d) \div (ClientHeight \div 2)

\* the pixel travel (times rotateSpeed) turned into an angle: TWO_PI * d / clientHeight
RotateAngle(d) == (TWO_PI * d) \div ClientHeight

\* Vector3.setFromMatrixColumn(camera.matrix, i): the camera's right (i = 0) and
\* up (i = 1) axis after lookAt(target), rounded to the nearest coordinate axis
matrixColumn(c, i) ==
    LET t == WrapAngle(c.position.theta)
        q == PI \div 4
        \* (sin theta, cos theta) rounded to an axis
        sn == IF t > q /\ t <= 3 * q THEN 1 ELSE IF t < -q /\ t >= -3 * q THEN -1 ELSE 0
        cs == IF t >= -q /\ t <= q THEN 1 ELSE IF t > 3 * q \/ t < -3 * q THEN -1 ELSE 0
        ph == c.position.phi
    IN IF c.position.nan \/ c.target.nan THEN NaN3
       ELSE IF i = 0 THEN Vec3(cs, 0, -sn)
       ELSE IF ph >= q /\ ph <= 3 * q THEN Vec3(0, 1, 0)
       ELSE IF ph < q THEN Vec3(-sn, 0, -cs)
       ELSE Vec3(sn, 0, cs)

\* v.multiplyScalar(sign * distance) on the lattice
multiplyScalar(v, sign, distance) ==
    IF v.nan \/ ~IsFin(distance) THEN NaN3
    ELSE LET m == sign * ToLattice(distance) IN Vec3(v.x * m, v.y * m, v.z * m)

Sign(i) == IF i < 0 THEN -1 ELSE IF i > 0 THEN 1 ELSE 0

\* panLeft(distance, cameraMatrix): panOffset.add(xColumn * -distance)
panLeft(c, sign, distance) ==
    [c EXCEPT !.panOffset = Add3(@, multiplyScalar(matrixColumn(c, 0), -sign, distance))]

\* panUp(distance, cameraMatrix): panOffset.add(yColumn * distance)
panUp(c, sign, distance) ==
    [c EXCEPT !.panOffset = Add3(@, multiplyScalar(matrixColumn(c, 1), sign, distance))]

\* Math.tan((camera.fov / 2) * Math.PI / 180) for the camera's fov of 90 degrees
TanHalfFov == One

\* const pan = (deltaX, deltaY) => { ... }: both distances are measured from the
\* pose before either is applied
pan(c, deltaX, deltaY) ==
    LET targetDistance == Mul(getDistance(c), TanHalfFov)
        dist(d) == Div(Mul(Fin(2 * Abs(d), 1), targetDistance), Fin(ClientHeight, 1))
    IN Then(panLeft(c, Sign(deltaX), dist(deltaX)),
            LAMBDA c1 : panUp(c1, Sign(deltaY), dist(deltaY)))

dollyOut(c, dollyScale) == [c EXCEPT !.scale = Div(@, dollyScale)]

dollyIn(c, dollyScale) == [c EXCEPT !.scale = Mul(@, dollyScale)]

(***************************************************************************)
(* event callbacks - update the camera state                               *)
(***************************************************************************)
handleMouseDownRotate(c, event) == [c EXCEPT !.rotateStart = Vec2(event.clientX, event.clientY)]

handleMouseDownDolly(c, event) == [c EXCEPT !.dollyStart = Vec2(event.clientX, event.clientY)]

handleMouseDownPan(c, event) == [c EXCEPT !.panStart = Vec2(event.clientX, event.clientY)]

handleMouseMoveRotate(c, event) ==
    LET rotateEnd == Vec2(event.clientX, event.clientY)
        dx == (rotateEnd.x - c.rotateStart.x) * c.cfg.rotateSpeed
        dy == (rotateEnd.y - c.rotateStart.y) * c.cfg.rotateSpeed
        c1 == rotateUp(rotateLeft(c, RotateAngle(dx)), RotateAngle(dy))
    IN Then([c1 EXCEPT !.rotateStart = rotateEnd], update)

handleMouseMoveDolly(c, event) ==
    LET dollyEnd == Vec2(event.clientX, event.clientY)
        dy == dollyEnd.y - c.dollyStart.y
        c1 == IF dy > 0 THEN dollyOut(c, getZoomScale(c, dy))
              ELSE IF dy < 0 THEN dollyIn(c, getZoomScale(c, dy))
              ELSE c
    IN Then([c1 EXCEPT !.dollyStart = dollyEnd], update)

\* handleMouseMovePan without the update() of line 276
handleMouseMovePanPending(c, event) ==
    LET panEnd == Vec2(event.clientX, event.clientY)
        dx == (panEnd.x - c.panStart.x) * c.cfg.panSpeed
        dy == (panEnd.y - c.panStart.y) * c.cfg.panSpeed
        c1 == pan(c, dx, dy)
    IN [c1 EXCEPT !.panStart = panEnd]

handleMouseMovePan(c, event) ==
    LET panEnd == Vec2(event.clientX, event.clientY)
        dx == (panEnd.x - c.panStart.x) * c.cfg.panSpeed
        dy == (panEnd.y - c.panStart.y) * c.cfg.panSpeed
        c1 == pan(c, dx, dy)
    IN Then([c1 EXCEPT !.panStart = panEnd], update)

\* handleMouseWheel with dollyIn and dollyOut exchanged
handleMouseWheelReversed(c, event) ==
    Then(IF event.deltaY < 0 THEN dollyOut(c, getZoomScale(c, event.deltaY))
         ELSE IF event.deltaY > 0 THEN dollyIn(c, getZoomScale(c, event.deltaY))
         ELSE c,
         update)

handleMouseWheel(c, event) ==
    Then(IF event.deltaY < 0 THEN dollyIn(c, getZoomScale(c, event.deltaY))
         ELSE IF event.deltaY > 0 THEN dollyOut(c, getZoomScale(c, event.deltaY))
         ELSE c,
         update)

\* the switch of handleKeyDown on event.code
keyCase(c, event) ==
    LET step == RotateAngle(c.cfg.rotateSpeed)
    IN IF event.code = KEYS.UP
       THEN (IF event.shiftKey THEN rotateUp(c, step) ELSE pan(c, 0, c.cfg.keyPanSpeed))
       ELSE IF event.code = KEYS.BOTTOM
       THEN (IF event.shiftKey THEN rotateUp(c, -step) ELSE pan(c, 0, -c.cfg.keyPanSpeed))
       ELSE IF event.code = KEYS.LEFT
       THEN (IF event.shiftKey THEN rotateLeft(c, step) ELSE pan(c, c.cfg.keyPanSpeed, 0))
       ELSE IF event.code = KEYS.RIGHT
       THEN (IF event.shiftKey THEN rotateLeft(c, -step) ELSE pan(c, -c.cfg.keyPanSpeed, 0))
       ELSE c

\* handleKeyDown with preventDefault() and update() outside the if of line 324
handleKeyDownAlwaysUpdates(c, event) ==
    Then([keyCase(c, event) EXCEPT !.prevented = TRUE], update)

handleKeyDown(c, event) ==
    LET needsUpdate == event.code \in {KEYS.UP, KEYS.BOTTOM, KEYS.LEFT, KEYS.RIGHT}
    IN IF needsUpdate THEN Then([keyCase(c, event) EXCEPT !.prevented = TRUE], update)
       ELSE keyCase(c, event)

\* pointerPositions[id] is a Vector2 or undefined
Undefined == [def |-> FALSE, x |-> 0, y |-> 0]

Position(x, y) == [def |-> TRUE, x |-> x, y |-> y]

\* const getSecondPointerPosition = (event) => { ... }: pointers[1] and pointers[0]
\* are undefined past the end of the array, and so is pointerPositions[undefined]
getSecondPointerPosition(c, event) ==
    LET i == IF Len(c.pointers) >= 1 /\ event.pointerId = c.pointers[1] THEN 2 ELSE 1
    IN IF Len(c.pointers) >= i THEN c.pointerPositions[c.pointers[i]] ELSE Undefined

\* the anchor of a touch gesture: the contact itself, or the midpoint of the two
\* contacts; reading .x of an undefined second position throws
touchAnchorDefined(c, event) ==
    Len(c.pointers) = 1 \/ getSecondPointerPosition(c, event).def

touchAnchor(c, event) ==
    IF Len(c.pointers) = 1 THEN Vec2(event.pageX, event.pageY)
    ELSE LET position == getSecondPointerPosition(c, event)
         IN Vec2((event.pageX + position.x) \div 2, (event.pageY + position.y) \div 2)

\* the separation of the two contacts
touchDistance(c, event) ==
    LET position == getSecondPointerPosition(c, event)
    IN Hypot(event.pageX - position.x, event.pageY - position.y)

handleTouchStartRotate(c, event) ==
    IF ~touchAnchorDefined(c, event) THEN Throw(c)
    ELSE [c EXCEPT !.rotateStart = touchAnchor(c, event)]

handleTouchStartPan(c, event) ==
    IF ~touchAnchorDefined(c, event) THEN Throw(c)
    ELSE [c EXCEPT !.panStart = touchAnchor(c, event)]

handleTouchStartDolly(c, event) ==
    IF ~getSecondPointerPosition(c, event).def THEN Throw(c)
    ELSE [c EXCEPT !.dollyStart = Vec2(0, touchDistance(c, event))]

handleTouchStartDollyPan(c, event) ==
    Then(handleTouchStartDolly(c, event),
         LAMBDA c1 : IF c1.threw THEN c1 ELSE handleTouchStartPan(c1, event))

handleTouchStartDollyRotate(c, event) ==
    Then(handleTouchStartDolly(c, event),
         LAMBDA c1 : IF c1.threw THEN c1 ELSE handleTouchStartRotate(c1, event))

handleTouchMoveRotate(c, event) ==
    IF ~touchAnchorDefined(c, event) THEN Throw(c)
    ELSE LET rotateEnd == touchAnchor(c, event)
             dx == (rotateEnd.x - c.rotateStart.x) * c.cfg.rotateSpeed
             dy == (rotateEnd.y - c.rotateStart.y) * c.cfg.rotateSpeed
             c1 == rotateUp(rotateLeft(c, RotateAngle(dx)), RotateAngle(dy))
         IN [c1 EXCEPT !.rotateStart = rotateEnd]

handleTouchMovePan(c, event) ==
    IF ~touchAnchorDefined(c, event) THEN Throw(c)
    ELSE LET panEnd == touchAnchor(c, event)
             dx == (panEnd.x - c.panStart.x) * c.cfg.panSpeed
             dy == (panEnd.y - c.panStart.y) * c.cfg.panSpeed
             c1 == pan(c, dx, dy)
         IN [c1 EXCEPT !.panStart = panEnd]

handleTouchMoveDolly(c, event) ==
    IF ~getSecondPointerPosition(c, event).def THEN Throw(c)
    ELSE LET dollyEnd == Vec2(0, touchDistance(c, event))
             dollyDelta == MathPow(Div(Fin(dollyEnd.y, 1), Fin(c.dollyStart.y, 1)),
                                   c.cfg.zoomSpeed)
             c1 == dollyOut(c, dollyDelta)
         IN [c1 EXCEPT !.dollyStart = dollyEnd]

handleTouchMoveDollyPan(c, event) ==
    Then(handleTouchMoveDolly(c, event),
         LAMBDA c1 : IF c1.threw THEN c1 ELSE handleTouchMovePan(c1, event))

handleTouchMoveDollyRotate(c, event) ==
    Then(handleTouchMoveDolly(c, event),
         LAMBDA c1 : IF c1.threw THEN c1 ELSE handleTouchMoveRotate(c1, event))

(***************************************************************************)
(* event handlers - FSM: listen for events and reset state                 *)
(***************************************************************************)
addPointer(c, event) == [c EXCEPT !.pointers = Append(@, event.pointerId)]

\* removePointer splicing the first entry of the array, whatever its id
removePointerByPlace(c, event) ==
    [c EXCEPT !.pointerPositions[event.pointerId] = Undefined,
              !.pointers = IF @ = << >> THEN @ ELSE Tail(@)]

removePointer(c, event) ==
    [c EXCEPT !.pointerPositions[event.pointerId] = Undefined,
              !.pointers = SelectSeq(@, LAMBDA id : id # event.pointerId)]

isTrackingPointer(c, event) == \E i \in 1..Len(c.pointers) : c.pointers[i] = event.pointerId

trackPointer(c, event) ==
    [c EXCEPT !.pointerPositions[event.pointerId] = Position(event.pageX, event.pageY)]

\* the end of onMouseDown and onTouchStart without the dispatch
startNever(c) == c

startIfActive(c) == IF c.state # "NONE" THEN dispatchEvent(c, "start") ELSE c

\* the switch of onTouchStart with every length but 1 taken as case 2
touchStartCaseTwoOrMore(c, event) ==
    IF Len(c.pointers) = 1
    THEN [handleTouchStartRotate(c, event) EXCEPT !.state = "TOUCH_ROTATE"]
    ELSE [handleTouchStartDollyPan(c, event) EXCEPT !.state = "TOUCH_DOLLY_PAN"]

\* the switch of onTouchStart on pointers.length: handler, then state
touchStartCase(c, event) ==
    IF Len(c.pointers) = 1
    THEN (IF TOUCHES.ONE = "ROTATE"
          THEN [handleTouchStartRotate(c, event) EXCEPT !.state = "TOUCH_ROTATE"]
          ELSE IF TOUCHES.ONE = "PAN"
          THEN [handleTouchStartPan(c, event) EXCEPT !.state = "TOUCH_PAN"]
          ELSE [c EXCEPT !.state = "NONE"])
    ELSE IF Len(c.pointers) = 2
    THEN (IF TOUCHES.TWO = "DOLLY_PAN"
          THEN [handleTouchStartDollyPan(c, event) EXCEPT !.state = "TOUCH_DOLLY_PAN"]
          ELSE IF TOUCHES.TWO = "DOLLY_ROTATE"
          THEN [handleTouchStartDollyRotate(c, event) EXCEPT !.state = "TOUCH_DOLLY_ROTATE"]
          ELSE [c EXCEPT !.state = "NONE"])
    ELSE [c EXCEPT !.state = "NONE"]

onTouchStart(c, event) ==
    Then(Then(trackPointer(c, event), LAMBDA c0 : touchStartCase(c0, event)),
         \* a handler that threw has not reached the assignment of state
         LAMBDA c1 : IF c1.threw THEN [c1 EXCEPT !.state = c.state] ELSE startIfActive(c1))

\* the switch of onTouchMove on state
touchMoveCase(c, event) ==
    IF c.state = "TOUCH_ROTATE" THEN handleTouchMoveRotate(c, event)
    ELSE IF c.state = "TOUCH_PAN" THEN handleTouchMovePan(c, event)
    ELSE IF c.state = "TOUCH_DOLLY_PAN" THEN handleTouchMoveDollyPan(c, event)
    ELSE IF c.state = "TOUCH_DOLLY_ROTATE" THEN handleTouchMoveDollyRotate(c, event)
    ELSE [c EXCEPT !.state = "NONE"]

onTouchMove(c, event) ==
    Then(Then(trackPointer(c, event), LAMBDA c0 : touchMoveCase(c0, event)),
         LAMBDA c1 : IF c1.threw \/ c1.state = "NONE" THEN c1 ELSE update(c1))

\* onMouseDown without the shiftKey branches: each action keeps its own gesture
onMouseDownIgnoresShift(c, event) ==
    LET mouseAction == IF event.button = 0 THEN MOUSE_BUTTONS.LEFT
                       ELSE IF event.button = 1 THEN MOUSE_BUTTONS.MIDDLE
                       ELSE IF event.button = 2 THEN MOUSE_BUTTONS.RIGHT
                       ELSE "-1"
    IN Then(IF mouseAction = "DOLLY"
            THEN [handleMouseDownDolly(c, event) EXCEPT !.state = "DOLLY"]
            ELSE IF mouseAction = "ROTATE"
            THEN [handleMouseDownRotate(c, event) EXCEPT !.state = "ROTATE"]
            ELSE IF mouseAction = "PAN"
            THEN [handleMouseDownPan(c, event) EXCEPT !.state = "PAN"]
            ELSE [c EXCEPT !.state = "NONE"],
            startIfActive)

onMouseDown(c, event) ==
    LET mouseAction == IF event.button = 0 THEN MOUSE_BUTTONS.LEFT
                       ELSE IF event.button = 1 THEN MOUSE_BUTTONS.MIDDLE
                       ELSE IF event.button = 2 THEN MOUSE_BUTTONS.RIGHT
                       ELSE "-1"
    IN Then(IF mouseAction = "DOLLY"
            THEN [handleMouseDownDolly(c, event) EXCEPT !.state = "DOLLY"]
            ELSE IF mouseAction = "ROTATE"
            THEN (IF event.shiftKey
                  THEN [handleMouseDownPan(c, event) EXCEPT !.state = "PAN"]
                  ELSE [handleMouseDownRotate(c, event) EXCEPT !.state = "ROTATE"])
            ELSE IF mouseAction = "PAN"
            THEN (IF event.shiftKey
                  THEN [handleMouseDownRotate(c, event) EXCEPT !.state = "ROTATE"]
                  ELSE [handleMouseDownPan(c, event) EXCEPT !.state = "PAN"])
            ELSE [c EXCEPT !.state = "NONE"],
            startIfActive)

\* onMouseMove with a default branch that rotates
onMouseMoveAlways(c, event) ==
    IF c.state = "DOLLY" THEN handleMouseMoveDolly(c, event)
    ELSE IF c.state = "PAN" THEN handleMouseMovePan(c, event)
    ELSE handleMouseMoveRotate(c, event)

onMouseMove(c, event) ==
    IF c.state = "ROTATE" THEN handleMouseMoveRotate(c, event)
    ELSE IF c.state = "DOLLY" THEN handleMouseMoveDolly(c, event)
    ELSE IF c.state = "PAN" THEN handleMouseMovePan(c, event)
    ELSE c

\* onPointerDown without the return of line 432
onPointerDownAgain(c, event) ==
    Then(IF Len(c.pointers) = 0 THEN [c EXCEPT !.listening = TRUE] ELSE c,
         LAMBDA c1 : Then(addPointer(c1, event),
                          LAMBDA c2 : IF event.pointerType = "touch"
                                      THEN onTouchStart(c2, event)
                                      ELSE onMouseDown(c2, event)))

\* onPointerDown without lines 427-431: the move and up listeners are not attached
onPointerDownNoListeners(c, event) ==
    IF isTrackingPointer(c, event) THEN c
    ELSE Then(addPointer(c, event),
              LAMBDA c2 : IF event.pointerType = "touch"
                          THEN onTouchStart(c2, event)
                          ELSE onMouseDown(c2, event))

onPointerDown(c, event) ==
    Then(IF Len(c.pointers) = 0 THEN [c EXCEPT !.listening = TRUE] ELSE c,
         LAMBDA c1 :
             IF isTrackingPointer(c1, event) THEN c1
             ELSE Then(addPointer(c1, event),
                       LAMBDA c2 : IF event.pointerType = "touch"
                                   THEN onTouchStart(c2, event)
                                   ELSE onMouseDown(c2, event)))

onPointerMove(c, event) ==
    IF event.pointerType = "touch" THEN onTouchMove(c, event) ELSE onMouseMove(c, event)

\* onPointerUp without line 457: the state is left as it was
onPointerUpKeepsState(c, event) ==
    Then(removePointer(c, event),
         LAMBDA c1 :
             IF Len(c1.pointers) = 0
             THEN dispatchEvent([c1 EXCEPT !.listening = FALSE], "end")
             ELSE IF Len(c1.pointers) = 1
             THEN LET pointerId == c1.pointers[1]
                      position == c1.pointerPositions[pointerId]
                  IN IF ~position.def THEN Throw(c1)
                     ELSE onTouchStart(c1, [pointerId |-> pointerId,
                                            pageX |-> position.x, pageY |-> position.y])
             ELSE c1)

onPointerUp(c, event) ==
    Then(removePointer(c, event),
         LAMBDA c1 :
             IF Len(c1.pointers) = 0
             THEN [dispatchEvent([c1 EXCEPT !.listening = FALSE], "end")
                       EXCEPT !.state = "NONE"]
             ELSE IF Len(c1.pointers) = 1
             THEN LET pointerId == c1.pointers[1]
                      position == c1.pointerPositions[pointerId]
                  IN IF ~position.def THEN Throw(c1)
                     ELSE onTouchStart(c1, [pointerId |-> pointerId,
                                            pageX |-> position.x, pageY |-> position.y])
             ELSE c1)

\* controlActive is never assigned after its initialisation to false
controlActive == FALSE

\* newEvent without the multiplication by 10 of lines 546-548
newEventUnpinched(event) ==
    [clientX |-> event.clientX, clientY |-> event.clientY,
     deltaY |-> IF event.deltaMode = 1 THEN event.deltaY * 16
                ELSE IF event.deltaMode = 2 THEN event.deltaY * 100
                ELSE event.deltaY]

\* the copy of the wheel event that onMouseWheel hands to handleMouseWheel
newEvent(event) ==
    LET scaled == IF event.deltaMode = 1 THEN event.deltaY * 16
                  ELSE IF event.deltaMode = 2 THEN event.deltaY * 100
                  ELSE event.deltaY
    IN [clientX |-> event.clientX, clientY |-> event.clientY,
        deltaY |-> IF event.ctrlKey /\ ~controlActive THEN scaled * 10 ELSE scaled]

\* onMouseWheel without the return of line 529
onMouseWheelAnyState(c, event) ==
    LET c1 == dispatchEvent([c EXCEPT !.prevented = TRUE], "start")
    IN dispatchEvent(Then(c1, LAMBDA c2 : handleMouseWheel(c2, newEvent(event))), "end")

onMouseWheel(c, event) ==
    IF c.state # "NONE" THEN c
    ELSE LET c1 == dispatchEvent([c EXCEPT !.prevented = TRUE], "start")
         IN dispatchEvent(Then(c1, LAMBDA c2 : handleMouseWheel(c2, newEvent(event))), "end")

\* onKeyDown ending the gesture in progress
onKeyDownEndsGesture(c, event) == [handleKeyDown(c, event) EXCEPT !.state = "NONE"]

onKeyDown(c, event) == handleKeyDown(c, event)

(***************************************************************************)
(* The public surface: what the constructor assigns to this (lines 81-85), *)
(* and what THREE.EventDispatcher gives the class                          *)
(***************************************************************************)
PublicMethods == {"getPolarAngle", "getAzimuthalAngle", "getDistance",
                  "addEventListener", "hasEventListener", "removeEventListener",
                  "dispatchEvent"}

\* the host's animate(): controls.update().  Calling a property the object does
\* not have is a TypeError.
animate(c) == IF "update" \in PublicMethods THEN update(c) ELSE Throw(c)

\* the accessors
getPolarAngle(c) == c.spherical.phi

getAzimuthalAngle(c) == c.spherical.theta

(***************************************************************************)
(* State                                                                   *)
(***************************************************************************)
VARIABLES
    config,            \* the public option fields and this.cursor
    state,             \* let state = STATE.NONE
    pointers,          \* const pointers = []
    pointerPositions,  \* const pointerPositions = {}
    rotateStart, panStart, dollyStart,
    spherical,         \* const spherical = new THREE.Spherical()
    sphericalDelta,    \* const sphericalDelta = new THREE.Spherical()
    panOffset,         \* const panOffset = new THREE.Vector3()
    scale,             \* let scale = 1
    position,          \* camera.position, as its offset from target in polar form
    target,            \* this.target
    listening,         \* pointermove and pointerup listeners are attached
    \* what the handler that ran last did
    emitted,           \* the notifications it dispatched, in order
    threw,             \* it ended in a TypeError
    prevented,         \* it called event.preventDefault()
    updates,           \* how many times it ran update()
    idle,              \* its last update() found no pending delta, pan or scale
    hostError,         \* the host's call of a controller method was a TypeError
    \* history
    gestureOpen,       \* a start was dispatched and no end since
    misordered,        \* the last handler dispatched a start while one was open,
                       \* or an end while none was
    configDirty,       \* an option was assigned since update() last ran
    wasDirty           \* configDirty, before the last handler ran

vars == <<config, state, pointers, pointerPositions, rotateStart, panStart, dollyStart,
          spherical, sphericalDelta, panOffset, scale, position, target, listening,
          emitted, threw, prevented, updates, idle, hostError, gestureOpen, misordered,
          configDirty, wasDirty>>

(***************************************************************************)
(* Bounds of the exploration                                               *)
(***************************************************************************)
\* pointer ids: the mouse and two touch contacts
TouchPointers == {"touchA", "touchB", "touchC"}

TwoTouches == {"touchA", "touchB"}

PointerIds == {"mouse"} \cup TouchPointers

pointerType(id) == IF id \in TouchPointers THEN "touch" ELSE "mouse"

\* screen positions, in pixels
Origin == Vec2(0, 0)

Right == Vec2(100, 0)

Below == Vec2(0, 200)

\* the largest coordinate of the target and the largest numerator or
\* denominator of the camera distance that are explored
MaxCoord == 6

MaxNum == 4000000

\* the angles explored: within MaxKeyTicks of a multiple of PI / 4
MaxKeyTicks == 1

(***************************************************************************)
(* Configurations                                                          *)
(***************************************************************************)
Unbounded == [fin |-> FALSE, v |-> 0]

Angle(v) == [fin |-> TRUE, v |-> v]

\* the constructor's defaults, lines 49-75
Defaults ==
    [cursor |-> Zero3,
     minDistance |-> Zero, maxDistance |-> Infinity,
     minTargetRadius |-> Zero, maxTargetRadius |-> Infinity,
     minPolarAngle |-> 0, maxPolarAngle |-> PI,
     minAzimuthAngle |-> Unbounded, maxAzimuthAngle |-> Unbounded,
     zoomSpeed |-> 1, rotateSpeed |-> 1, panSpeed |-> 1, keyPanSpeed |-> 7]

\* every degree of freedom of the pose pinned: only the gesture state moves
Locked ==
    [Defaults EXCEPT !.minDistance = Fin(5, 1), !.maxDistance = Fin(5, 1),
                     !.maxTargetRadius = Zero,
                     !.minPolarAngle = PI \div 2, !.maxPolarAngle = PI \div 2,
                     !.minAzimuthAngle = Angle(0), !.maxAzimuthAngle = Angle(0)]

(***************************************************************************)
(* Construction                                                            *)
(***************************************************************************)
\* the fields as the constructor initialises them, with the camera where the
\* host put it, before the constructor's closing update()
Constructed(cameraPosition) ==
    [cfg |-> Defaults,
     state |-> "NONE",
     pointers |-> << >>,
     pointerPositions |-> [id \in PointerIds |-> Undefined],
     rotateStart |-> Vec2(0, 0), panStart |-> Vec2(0, 0), dollyStart |-> Vec2(0, 0),
     spherical |-> Spherical(One, 0, 0),
     sphericalDelta |-> [theta |-> 0, phi |-> 0],
     panOffset |-> Zero3,
     scale |-> One,
     position |-> cameraPosition,
     target |-> Zero3,
     listening |-> FALSE,
     emitted |-> << >>, threw |-> FALSE, prevented |-> FALSE, updates |-> 0,
     idle |-> FALSE, zoomChanged |-> FALSE]

\* new OrbitControls(camera, domElement)
Construct(cameraPosition) == Then(Constructed(cameraPosition), update)

\* the controller's fields as a record, before a handler runs
Ctl ==
    [cfg |-> config, state |-> state, pointers |-> pointers,
     pointerPositions |-> pointerPositions,
     rotateStart |-> rotateStart, panStart |-> panStart, dollyStart |-> dollyStart,
     spherical |-> spherical, sphericalDelta |-> sphericalDelta,
     panOffset |-> panOffset, scale |-> scale, position |-> position, target |-> target,
     listening |-> listening,
     emitted |-> << >>, threw |-> FALSE, prevented |-> FALSE, updates |-> 0,
     idle |-> FALSE, zoomChanged |-> FALSE]

\* start and end notifications in order: open after them, and whether they alternate
RECURSIVE OpenAfter(_, _)
OpenAfter(open, notes) ==
    IF notes = << >> THEN open
    ELSE OpenAfter(IF Head(notes) = "start" THEN TRUE
                   ELSE IF Head(notes) = "end" THEN FALSE ELSE open, Tail(notes))

RECURSIVE Alternate(_, _)
Alternate(open, notes) ==
    IF notes = << >> THEN TRUE
    ELSE IF Head(notes) = "start" THEN ~open /\ Alternate(TRUE, Tail(notes))
    ELSE IF Head(notes) = "end" THEN open /\ Alternate(FALSE, Tail(notes))
    ELSE Alternate(open, Tail(notes))

\* the explored part of the lattice
NearEighth(a) ==
    LET r == a % (PI \div 4) IN r <= MaxKeyTicks \/ r >= (PI \div 4) - MaxKeyTicks

Explored(c) ==
    /\ c.target.nan \/ (Abs(c.target.x) <= MaxCoord /\ Abs(c.target.y) <= MaxCoord
                         /\ Abs(c.target.z) <= MaxCoord)
    /\ c.spherical.radius.n <= MaxNum /\ c.spherical.radius.d <= MaxNum
    /\ NearEighth(c.spherical.theta) /\ NearEighth(c.spherical.phi)

\* the state after a handler left the fields as c
Commit(c) ==
    /\ Explored(c)
    /\ config' = c.cfg
    /\ state' = c.state
    /\ pointers' = c.pointers
    /\ pointerPositions' = c.pointerPositions
    /\ rotateStart' = c.rotateStart
    /\ panStart' = c.panStart
    /\ dollyStart' = c.dollyStart
    /\ spherical' = c.spherical
    /\ sphericalDelta' = c.sphericalDelta
    /\ panOffset' = c.panOffset
    /\ scale' = c.scale
    /\ position' = c.position
    /\ target' = c.target
    /\ listening' = c.listening
    /\ emitted' = c.emitted
    /\ threw' = c.threw
    /\ prevented' = c.prevented
    /\ updates' = c.updates
    /\ idle' = c.idle
    /\ gestureOpen' = OpenAfter(gestureOpen, c.emitted)
    /\ misordered' = ~Alternate(gestureOpen, c.emitted)
    /\ configDirty' = (configDirty /\ c.updates = 0)
    /\ wasDirty' = configDirty

\* the state after init(): the controller constructed around the host's camera,
\* then the options assigned.  No handler has run yet, and what the constructor
\* notified had no listener.
InitWith(cameras, presets) ==
    \E cam \in cameras, preset \in presets :
        \E c \in {Construct(cam)} :
           /\ config = preset
           /\ state = c.state
           /\ pointers = c.pointers
           /\ pointerPositions = c.pointerPositions
           /\ rotateStart = c.rotateStart
           /\ panStart = c.panStart
           /\ dollyStart = c.dollyStart
           /\ spherical = c.spherical
           /\ sphericalDelta = c.sphericalDelta
           /\ panOffset = c.panOffset
           /\ scale = c.scale
           /\ position = c.position
           /\ target = c.target
           /\ listening = c.listening
           /\ emitted = << >>
           /\ threw = FALSE
           /\ prevented = FALSE
           /\ updates = 0
           /\ idle = FALSE
           /\ hostError = FALSE
           /\ gestureOpen = FALSE
           /\ misordered = FALSE
           /\ configDirty = (preset # Defaults)
           /\ wasDirty = FALSE

(***************************************************************************)
(* Events.  Each action is one handler run to completion on one event.     *)
(***************************************************************************)
PointerEvent(id, p, button, shiftKey) ==
    [pointerId |-> id, pointerType |-> pointerType(id),
     clientX |-> p.x, clientY |-> p.y, pageX |-> p.x, pageY |-> p.y,
     button |-> button, shiftKey |-> shiftKey]

\* the separation of this contact from every recorded contact has an exact root
ExactContacts(id, p) ==
    \A other \in PointerIds \ {id} :
        pointerPositions[other].def =>
            IsExactHypot(p.x - pointerPositions[other].x, p.y - pointerPositions[other].y)

Down(id) == isTrackingPointer(Ctl, [pointerId |-> id])

\* a handler ran on an event of the element
Handled(c) == \E d \in {c} : Commit(d) /\ hostError' = FALSE

\* pointerdown of the mouse, with one of the given [button, shiftKey]
MouseDown(positions, buttons) ==
    \E p \in positions, b \in buttons :
        /\ ~Down("mouse")
        /\ \E c \in {Ctl} : Handled(onPointerDown(c, PointerEvent("mouse", p, b.button, b.shiftKey)))

\* pointerdown of a touch contact that is up
TouchDown(ids, positions) ==
    \E id \in ids, p \in positions :
        /\ ~Down(id)
        /\ ExactContacts(id, p)
        /\ \E c \in {Ctl} : Handled(onPointerDown(c, PointerEvent(id, p, 0, FALSE)))

\* pointermove of the mouse, pressed or hovering; the listener is attached
\* while the registry is not empty
MouseMove(positions) ==
    \E p \in positions :
        /\ listening
        /\ state = "DOLLY" => ExactZoom(config, p.y - dollyStart.y)
        /\ \E c \in {Ctl} : Handled(onPointerMove(c, PointerEvent("mouse", p, 0, FALSE)))

\* pointermove of a touch contact that is down
TouchMove(ids, positions) ==
    \E id \in ids, p \in positions :
        /\ listening
        /\ Down(id)
        /\ ExactContacts(id, p)
        /\ \E c \in {Ctl} : Handled(onPointerMove(c, PointerEvent(id, p, 0, FALSE)))

\* pointerup of a pointer that is down
PointerUp(ids) ==
    \E id \in ids :
        /\ listening
        /\ Down(id)
        /\ \E c \in {Ctl} : Handled(onPointerUp(c, PointerEvent(id, Origin, 0, FALSE)))

\* pointercancel of a pointer that is down: the same handler, always attached
PointerCancel(ids) ==
    \E id \in ids :
        /\ Down(id)
        /\ \E c \in {Ctl} : Handled(onPointerUp(c, PointerEvent(id, Origin, 0, FALSE)))

\* pointerdown of a pointer that is in the registry already
RepeatPointerDown(ids, positions, buttons) ==
    \E id \in ids, p \in positions, b \in buttons :
        /\ Down(id)
        /\ \E c \in {Ctl} : Handled(onPointerDown(c, PointerEvent(id, p, b.button, b.shiftKey)))

\* pointerup of a pointer that is not in the registry (pressed outside the
\* element), while the pointerup listener is attached
StrayPointerUp(ids) ==
    \E id \in ids :
        /\ listening
        /\ ~Down(id)
        /\ \E c \in {Ctl} : Handled(onPointerUp(c, PointerEvent(id, Origin, 0, FALSE)))

\* pointercancel of a pointer that is not in the registry
StrayPointerCancel(ids) ==
    \E id \in ids :
        /\ ~Down(id)
        /\ \E c \in {Ctl} : Handled(onPointerUp(c, PointerEvent(id, Origin, 0, FALSE)))

WheelEvent(deltaY, deltaMode, ctrlKey) ==
    [clientX |-> 0, clientY |-> 0, deltaY |-> deltaY, deltaMode |-> deltaMode,
     ctrlKey |-> ctrlKey]

NormalizedDelta(e) ==
    e.deltaY * (IF e.deltaMode = 1 THEN 16 ELSE IF e.deltaMode = 2 THEN 100 ELSE 1)
             * (IF e.ctrlKey THEN 10 ELSE 1)

Wheel(events) ==
    \E e \in events :
        /\ ExactZoom(config, NormalizedDelta(e))
        /\ \E c \in {Ctl} : Handled(onMouseWheel(c, e))

KeyDown(codes, shiftKeys) ==
    \E code \in codes, shiftKey \in shiftKeys :
        \E c \in {Ctl} : Handled(onKeyDown(c, [code |-> code, shiftKey |-> shiftKey]))

\* one frame of the host's animation loop: animate() calls controls.update()
Frame ==
    \E c \in {Then(Ctl, animate)} :
        /\ Commit([c EXCEPT !.threw = FALSE])
        /\ hostError' = c.threw

\* the host assigns the options
Configure(presets) ==
    \E preset \in presets :
        /\ preset # config
        /\ config' = preset
        /\ configDirty' = TRUE
        /\ UNCHANGED <<state, pointers, pointerPositions, rotateStart, panStart,
                       dollyStart, spherical, sphericalDelta, panOffset, scale,
                       position, target, listening, emitted, threw, prevented,
                       updates, idle, hostError, gestureOpen, misordered, wasDirty>>

(***************************************************************************)
(* Spec: the gesture state machine, with the pose pinned by the options    *)
(***************************************************************************)
\* the host's camera: distance 0.5 in front of the target, level with it
CameraFront == Spherical(Fin(5, 1), 0, PI \div 2)

ArrowKeys == {KEYS.LEFT, KEYS.UP, KEYS.RIGHT, KEYS.BOTTOM}

WheelEvents == {WheelEvent(100, 0, FALSE), WheelEvent(-100, 0, FALSE), WheelEvent(0, 0, FALSE)}

Init == InitWith({CameraFront}, {Locked})

Button(button, shiftKey) == [button |-> button, shiftKey |-> shiftKey]

AllButtons == {Button(b, sh) : b \in {0, 1, 2, 3}, sh \in BOOLEAN}

Next ==
    \/ MouseDown({Origin, Right}, AllButtons)
    \/ TouchDown(TwoTouches, {Origin, Right})
    \/ MouseMove({Origin, Right})
    \/ TouchMove(TwoTouches, {Origin, Right})
    \/ PointerUp(PointerIds)
    \/ PointerCancel(PointerIds)
    \/ Wheel(WheelEvents)
    \/ KeyDown(ArrowKeys \cup {"KeyA"}, BOOLEAN)
    \/ Frame

Spec == Init /\ [][Next]_vars

(***************************************************************************)
(* SpecRotate: rotate gestures only (mouse, one touch contact, shift +      *)
(* arrow keys), under polar intervals inside (0, PI) and azimuth bounds     *)
(* that the host may reassign between events                               *)
(***************************************************************************)
\* maxPolarAngle = 3 PI / 4 and minPolarAngle = PI / 4
PolarBand ==
    [Defaults EXCEPT !.minPolarAngle = PI \div 4, !.maxPolarAngle = 3 * (PI \div 4)]

\* the azimuth kept within a quarter turn of the front
AzimuthArc ==
    [Defaults EXCEPT !.minPolarAngle = SafeEps, !.maxPolarAngle = PI \div 2,
                     !.minAzimuthAngle = Angle(-(PI \div 2)),
                     !.maxAzimuthAngle = Angle(PI \div 2)]

\* min > max: the azimuth kept within one tick of the back
AzimuthWrapped ==
    [PolarBand EXCEPT !.minAzimuthAngle = Angle(PI - SafeEps),
                      !.maxAzimuthAngle = Angle(SafeEps - PI)]

RotatePresets == {PolarBand, AzimuthArc, AzimuthWrapped}

RotateButtons == {Button(0, FALSE), Button(2, TRUE)}

InitRotate == InitWith({CameraFront}, RotatePresets)

\* the mouse is dragged sideways, the contact up and down; the keys turn both ways
NextRotate ==
    \/ MouseDown({Origin, Right}, RotateButtons)
    \/ MouseMove({Origin, Right})
    \/ TouchDown({"touchA"}, {Origin, Below})
    \/ TouchMove({"touchA"}, {Origin, Below})
    \/ PointerUp({"mouse", "touchA"})
    \/ KeyDown(ArrowKeys, {TRUE})
    \/ Configure(RotatePresets)

SpecRotate == InitRotate /\ [][NextRotate]_vars

(***************************************************************************)
(* SpecPan: pan gestures only (mouse, arrow keys), the camera level in      *)
(* front of the target, under target radii around the cursor               *)
(***************************************************************************)
\* an arrow key pans by 2 * 80 * 0.5 / 400 = 0.2
Pinned ==
    [Defaults EXCEPT !.keyPanSpeed = 80,
                     !.minDistance = Fin(5, 1), !.maxDistance = Fin(5, 1),
                     !.minPolarAngle = PI \div 2, !.maxPolarAngle = PI \div 2,
                     !.minAzimuthAngle = Angle(0), !.maxAzimuthAngle = Angle(0)]

\* the target kept between 0.3 and 0.5 from the cursor
TargetRing == [Pinned EXCEPT !.minTargetRadius = Fin(3, 1), !.maxTargetRadius = Fin(5, 1)]

\* the target kept within 0.3 of a cursor above the ground
TargetBall ==
    [Pinned EXCEPT !.cursor = Vec3(0, 2, 0), !.maxTargetRadius = Fin(3, 1)]

PanPresets == {TargetRing, TargetBall}

PanButtons == {Button(2, FALSE), Button(0, TRUE)}

InitPan == InitWith({CameraFront}, PanPresets)

NextPan ==
    \/ MouseDown({Origin, Right, Below}, PanButtons)
    \/ MouseMove({Origin, Right, Below})
    \/ PointerUp({"mouse"})
    \/ KeyDown(ArrowKeys, {FALSE})
    \/ Configure(PanPresets)

SpecPan == InitPan /\ [][NextPan]_vars

(***************************************************************************)
(* SpecTouch: up to three touch contacts going down, moving and lifting in  *)
(* any order, with the pose pinned by the options                          *)
(***************************************************************************)
NextTouch ==
    \/ TouchDown(TouchPointers, {Origin, Right})
    \/ TouchMove(TouchPointers, {Origin, Right})
    \/ PointerUp(TouchPointers)
    \/ PointerCancel(TouchPointers)

SpecTouch == Init /\ [][NextTouch]_vars

(***************************************************************************)
(* SpecUnmapped: every press of the mouse is with a button other than 0, 1 *)
(* or 2, next to one touch contact, under the default options              *)
(***************************************************************************)
UnmappedButtons == {Button(3, sh) : sh \in BOOLEAN}

InitUnmapped == InitWith({CameraFront}, {Defaults})

NextUnmapped ==
    \/ MouseDown({Origin, Right}, UnmappedButtons)
    \/ MouseMove({Origin, Right})
    \/ TouchDown({"touchA"}, {Origin, Right})
    \/ TouchMove({"touchA"}, {Origin, Right})
    \/ PointerUp(PointerIds)
    \/ PointerCancel(PointerIds)

SpecUnmapped == InitUnmapped /\ [][NextUnmapped]_vars

(***************************************************************************)
(* SpecWheel: the wheel turned between and during mouse and touch gestures, *)
(* under the default options: the zoom moves the camera                    *)
(***************************************************************************)
\* the distance kept between 0.475 and 0.5: one wheel step from either bound
DistanceBand == [Defaults EXCEPT !.minDistance = Fin(19, 4), !.maxDistance = Fin(5, 1)]

InitWheel == InitWith({CameraFront}, {Defaults, DistanceBand})

NextWheel ==
    \/ MouseDown({Origin}, AllButtons)
    \/ MouseMove({Origin})
    \/ TouchDown({"touchA"}, {Origin})
    \/ PointerUp(PointerIds)
    \/ PointerCancel(PointerIds)
    \/ Wheel(WheelEvents)

SpecWheel == InitWheel /\ [][NextWheel]_vars

(***************************************************************************)
(* SpecWheelModes: wheel events in line mode, in page mode and with ctrlKey, *)
(* the distance kept within one step of 0.95 on either side of 0.5          *)
(***************************************************************************)
WheelBand == [Defaults EXCEPT !.minDistance = Fin(19, 4), !.maxDistance = Fin(100, 19)]

ModeEvents ==
    {WheelEvent(25, 1, FALSE), WheelEvent(-25, 1, FALSE),
     WheelEvent(1, 2, FALSE), WheelEvent(-1, 2, FALSE),
     WheelEvent(10, 0, TRUE), WheelEvent(-10, 0, TRUE)}

InitWheelModes == InitWith({CameraFront}, {WheelBand})

NextWheelModes ==
    \/ MouseDown({Origin}, AllButtons)
    \/ MouseMove({Origin})
    \/ TouchDown({"touchA"}, {Origin})
    \/ PointerUp(PointerIds)
    \/ PointerCancel(PointerIds)
    \/ Wheel(ModeEvents)

SpecWheelModes == InitWheelModes /\ [][NextWheelModes]_vars

(***************************************************************************)
(* SpecDrag: rotate drags of the mouse and of one touch contact, sideways,   *)
(* up and down and diagonal, at rotateSpeed 1 and 2, the azimuth free and   *)
(* the polar angle within the default limits                               *)
(***************************************************************************)
Turning ==
    [Defaults EXCEPT !.minDistance = Fin(5, 1), !.maxDistance = Fin(5, 1),
                     !.maxTargetRadius = Zero]

TurningFast == [Turning EXCEPT !.rotateSpeed = 2]

Aside == Vec2(50, 50)

DragPositions == {Origin, Right, Below, Aside}

InitDrag == InitWith({CameraFront}, {Turning, TurningFast})

NextDrag ==
    \/ MouseDown(DragPositions, {Button(0, FALSE)})
    \/ MouseMove(DragPositions)
    \/ TouchDown({"touchA"}, DragPositions)
    \/ TouchMove({"touchA"}, DragPositions)
    \/ PointerUp({"mouse", "touchA"})

SpecDrag == InitDrag /\ [][NextDrag]_vars

(***************************************************************************)
(* SpecKeys: keys pressed between and during a mouse rotate gesture, with   *)
(* the options that let an arrow key pan by 0.2                             *)
(***************************************************************************)
KeyOptions == [Defaults EXCEPT !.keyPanSpeed = 80]

AllKeys == ArrowKeys \cup {"KeyA"}

InitKeys == InitWith({CameraFront}, {KeyOptions})

NextKeys ==
    \/ KeyDown(AllKeys, BOOLEAN)
    \/ MouseDown({Origin}, {Button(0, FALSE)})
    \/ PointerUp({"mouse"})

SpecKeys == InitKeys /\ [][NextKeys]_vars

(***************************************************************************)
(* SpecStray: touch gestures, with pointerup and pointercancel events of    *)
(* pointers that never went down on the element                            *)
(***************************************************************************)
NextStray ==
    \/ TouchDown(TwoTouches, {Origin, Right})
    \/ TouchMove(TwoTouches, {Origin, Right})
    \/ PointerUp(TwoTouches)
    \/ PointerCancel(TwoTouches)
    \/ StrayPointerUp(PointerIds)
    \/ StrayPointerCancel(PointerIds)

SpecStray == Init /\ [][NextStray]_vars

(***************************************************************************)
(* SpecPinch: two touch contacts on one line, pinching and spreading, with  *)
(* the target and the angles pinned by the options and the distance free   *)
(***************************************************************************)
DistanceFree == [Locked EXCEPT !.minDistance = Zero, !.maxDistance = Infinity]

InitPinch == InitWith({CameraFront}, {DistanceFree})

Far == Vec2(200, 0)

PinchPositions == {Origin, Right, Far}

\* one gesture: the contacts go down and move along the line
NextPinch ==
    \/ TouchDown(TwoTouches, {Origin, Right})
    \/ TouchMove(TwoTouches, PinchPositions)

SpecPinch == InitPinch /\ [][NextPinch]_vars

(***************************************************************************)
(* SpecSaturate: pinches that halve and double the distance of a camera     *)
(* placed 10 from the target, the distance held between 5 and 70            *)
(***************************************************************************)
Saturating == [Locked EXCEPT !.minDistance = Fin(50, 1), !.maxDistance = Fin(700, 1)]

CameraAtTen == Spherical(Fin(100, 1), 0, PI \div 2)

InitSaturate == InitWith({CameraAtTen}, {Saturating})

\* one contact rests on the origin, the other goes down and moves 100 or 200 away
NextSaturate ==
    \/ TouchDown({"touchA"}, {Origin})
    \/ TouchDown({"touchB"}, {Right, Far})
    \/ TouchMove({"touchB"}, {Right, Far})
    \/ PointerUp(TwoTouches)

SpecSaturate == InitSaturate /\ [][NextSaturate]_vars

(***************************************************************************)
(* SpecRepeat: mouse and touch gestures, with pointerdown events of          *)
(* pointers that are down already                                          *)
(***************************************************************************)
RepeatPointers == {"mouse", "touchA", "touchB"}

NextRepeat ==
    \/ MouseDown({Origin, Right}, RotateButtons)
    \/ TouchDown(TwoTouches, {Origin, Right})
    \/ RepeatPointerDown(RepeatPointers, {Origin, Right}, RotateButtons)
    \/ PointerUp(RepeatPointers)
    \/ PointerCancel(RepeatPointers)

SpecRepeat == Init /\ [][NextRepeat]_vars

(***************************************************************************)
(* SpecPending: every handler that accumulates a rotation, a pan or a scale: *)
(* moves of the three mouse gestures and of one and two touch contacts,     *)
(* wheel events and arrow keys                                             *)
(***************************************************************************)
NextPending ==
    \/ MouseDown({Origin}, AllButtons)
    \/ MouseMove({Right})
    \/ TouchDown({"touchA"}, {Origin})
    \/ TouchDown({"touchB"}, {Right})
    \/ TouchMove({"touchA"}, {Origin, Right})
    \/ PointerUp(PointerIds)
    \/ Wheel(WheelEvents)
    \/ KeyDown(ArrowKeys, BOOLEAN)

SpecPending == Init /\ [][NextPending]_vars

(***************************************************************************)
(* SpecAzimuth: the camera placed by the host anywhere around the target,   *)
(* azimuth bounds with min > max, and a mouse rotate gesture whose moves    *)
(* run update()                                                            *)
(***************************************************************************)
\* min = 3 PI / 4 and max = -3 PI / 4: the allowed arc crosses the back
WrappedBack ==
    [Defaults EXCEPT !.minAzimuthAngle = Angle(3 * (PI \div 4)),
                     !.maxAzimuthAngle = Angle(-3 * (PI \div 4))]

\* min = 3 PI / 4 and max = -PI / 2: the forbidden arc is centred at PI / 8
WrappedSkew ==
    [Defaults EXCEPT !.minAzimuthAngle = Angle(3 * (PI \div 4)),
                     !.maxAzimuthAngle = Angle(-(PI \div 2))]

\* the azimuths in (-PI, PI] the host puts the camera at, level with the target
CameraAzimuths ==
    {k * (PI \div 4) + e : k \in -3..4, e \in {-1, 0, 1}} \ {PI + 1}

CamerasAround == {Spherical(Fin(5, 1), theta, PI \div 2) : theta \in CameraAzimuths}

InitAzimuth == InitWith(CamerasAround, {WrappedBack, WrappedSkew})

NextAzimuth ==
    \/ MouseDown({Origin, Right}, {Button(0, FALSE)})
    \/ MouseMove({Origin, Right})
    \/ PointerUp({"mouse"})

SpecAzimuth == InitAzimuth /\ [][NextAzimuth]_vars

(***************************************************************************)
(* SpecOneSided: the mouse rotate gesture of SpecAzimuth with one azimuth    *)
(* bound set and the other left infinite                                   *)
(***************************************************************************)
OnlyMax == [Defaults EXCEPT !.maxAzimuthAngle = Angle(PI \div 4)]

OnlyMin == [Defaults EXCEPT !.minAzimuthAngle = Angle(-(PI \div 4))]

InitOneSided == InitWith(CamerasAround, {OnlyMax, OnlyMin})

SpecOneSided == InitOneSided /\ [][NextAzimuth]_vars

(***************************************************************************)
(* Properties                                                              *)
(***************************************************************************)
Notified(type) == \E i \in 1..Len(emitted) : emitted[i] = type

\* C1: a handler whose update() finds nothing pending, on a pose that update()
\* already settled under the same options, notifies no "change"
NoChangeWhenIdle ==
    (updates > 0 /\ idle /\ ~wasDirty) => ~Notified("change")

\* C2: over every sequence of pointer and wheel events "start" and "end"
\* alternate, beginning with "start"
StartEndAlternate == ~misordered

\* C3: no handler throws on a well-formed event, whatever mix of mouse and
\* touch pointers is down
NoHandlerThrows == ~threw

\* C4: the host's per-frame call controls.update() completes without error
HostCanCallUpdate == ~hostError

\* C5: once update() has run under the current options, getDistance() lies in
\* [minDistance, maxDistance]
DistanceWithinBounds ==
    ~configDirty =>
        /\ Le(config.minDistance, getDistance(Ctl))
        /\ Le(getDistance(Ctl), config.maxDistance)

TargetAboveGround == ~target.nan /\ target.y >= MIN_TARGET_HEIGHT

\* the azimuth bounds as update() normalises them
NormalizedAzimuth(a) == IF a.v < -PI THEN a.v + TWO_PI ELSE IF a.v > PI THEN a.v - TWO_PI ELSE a.v

\* C8: once update() has run under the current options,
\* minTargetRadius <= |target - cursor| <= maxTargetRadius, and the target is
\* at or above the minimum height
TargetWithinRadius ==
    ~configDirty =>
        /\ ~target.nan /\ target.y >= MIN_TARGET_HEIGHT
        /\ Le(Fin(config.minTargetRadius.n * config.minTargetRadius.n, 1),
              Fin(LengthSq(Sub3(target, config.cursor)), 1))
        /\ Le(Fin(LengthSq(Sub3(target, config.cursor)), 1),
              IF IsFin(config.maxTargetRadius)
              THEN Fin(config.maxTargetRadius.n * config.maxTargetRadius.n, 1)
              ELSE Infinity)

\* C9: with both azimuth bounds finite, once update() has run under the current
\* options theta lies in [min, max] when min <= max, and in the wrapped set
\* (theta >= min or theta <= max, modulo 2 PI) when min > max
AzimuthWithinBounds ==
    (config.minAzimuthAngle.fin /\ config.maxAzimuthAngle.fin /\ ~configDirty) =>
        LET min == NormalizedAzimuth(config.minAzimuthAngle)
            max == NormalizedAzimuth(config.maxAzimuthAngle)
            theta == getAzimuthalAngle(Ctl)
        IN IF min <= max THEN min <= theta /\ theta <= max
           ELSE WrapAngle(theta) >= min \/ WrapAngle(theta) <= max

\* C10: when update() has completed, sphericalDelta = (0, 0), panOffset = 0 and
\* scale = 1, whatever they were on entry
PendingInputsConsumed ==
    updates > 0 =>
        /\ sphericalDelta = [theta |-> 0, phi |-> 0]
        /\ panOffset = Zero3
        /\ scale = One

\* an update() that entered with a pending delta, pan or scale has completed
PendingInputsConsumedWitness == updates > 0 /\ ~idle /\ ~threw

\* two polar forms of the same camera offset
SamePlace(a, b) ==
    \/ a.nan /\ b.nan
    \/ /\ ~a.nan /\ ~b.nan /\ a.radius = b.radius
       /\ (a.radius.n = 0 \/ (WrapAngle(a.theta) = WrapAngle(b.theta) /\ a.phi = b.phi))

\* C11: an update() that finds nothing pending, under options that update()
\* has already applied, leaves the target and the camera position where they were
PoseIdempotent ==
    [][(updates' > 0 /\ idle' /\ ~configDirty)
           => (target' = target /\ SamePlace(position', position))]_vars

\* C12: a pointer-up or pointer-cancel removes the pointer from the registry;
\* when that empties the registry exactly one "end" is notified and the state
\* becomes NONE; with no pointer down the state is NONE
ReleaseEndsGesture ==
    /\ [](pointers = << >> => state = "NONE")
    /\ [][\A id \in PointerIds :
              (PointerUp({id}) \/ PointerCancel({id})) =>
                  /\ \A i \in 1..Len(pointers') : pointers'[i] # id
                  /\ Len(pointers') = Len(pointers) - 1
                  /\ pointers' = << >> => (emitted' = <<"end">> /\ state' = "NONE")]_vars

\* the last pointer of a gesture was released
ReleaseEndsGestureWitness ==
    pointers = << >> /\ ~listening /\ emitted = <<"end">> /\ state = "NONE" /\ ~threw

\* C13: the state goes from a gesture to NONE only in a step of the
\* pointer-up / pointer-cancel handler
OnlyReleaseEndsGesture ==
    [][(state # "NONE" /\ state' = "NONE")
           => (PointerUp(PointerIds) \/ PointerCancel(PointerIds))]_vars

\* the gesture the description gives a mouse button, with and without shift
GestureOfButton(b) ==
    IF b.button = 0 THEN (IF b.shiftKey THEN "PAN" ELSE "ROTATE")
    ELSE IF b.button = 1 THEN "DOLLY"
    ELSE IF b.button = 2 THEN (IF b.shiftKey THEN "ROTATE" ELSE "PAN")
    ELSE "NONE"

\* C14: a pointer-down of the untracked mouse sets the state by button and shift
\* key (0 -> ROTATE, PAN with shift; 1 -> DOLLY; 2 -> PAN, ROTATE with shift),
\* records the event position as that gesture's anchor and emits one start
MouseDownStartsGesture ==
    [][\A p \in {Origin, Right}, b \in AllButtons :
           (b.button \in {0, 1, 2} /\ MouseDown({p}, {b})) =>
               /\ state' = GestureOfButton(b)
               /\ state' = "ROTATE" => rotateStart' = Vec2(p.x, p.y)
               /\ state' = "PAN" => panStart' = Vec2(p.x, p.y)
               /\ state' = "DOLLY" => dollyStart' = Vec2(p.x, p.y)
               /\ emitted' = <<"start">>]_vars

MouseDownStartsGestureWitness ==
    /\ pointers = <<"mouse">> /\ state = "PAN" /\ panStart = Vec2(Right.x, Right.y)
    /\ rotateStart = Vec2(0, 0) /\ emitted = <<"start">>

\* C15: a mouse pointer-down with a button other than 0, 1 or 2 leaves the state
\* NONE and emits no start, and the moves of the mouse while it is held change
\* neither the pending deltas nor the camera pose
UnmappedButtonStartsNothing ==
    /\ [][MouseDown({Origin, Right}, UnmappedButtons)
              => (state' = "NONE" /\ emitted' = << >>)]_vars
    /\ [][(Down("mouse") /\ MouseMove({Origin, Right}))
              => (/\ UNCHANGED <<sphericalDelta, panOffset, scale, spherical,
                                 position, target>>
                  /\ updates' = 0 /\ emitted' = << >>)]_vars

UnmappedButtonStartsNothingWitness ==
    /\ pointers = <<"mouse">> /\ listening /\ state = "NONE" /\ ~threw
    /\ emitted = << >> /\ updates = 0 /\ spherical.theta # CameraFront.theta

\* C16: a touch pointer-down is classified by the number of registered pointers
\* after it: 1 -> TOUCH_ROTATE, 2 -> TOUCH_DOLLY_PAN, each with one start, and
\* any other number -> NONE with no start
TouchClassifiedByCount ==
    [][TouchDown(TouchPointers, {Origin, Right}) =>
           /\ Len(pointers') = 1 => (state' = "TOUCH_ROTATE" /\ emitted' = <<"start">>)
           /\ Len(pointers') = 2 => (state' = "TOUCH_DOLLY_PAN" /\ emitted' = <<"start">>)
           /\ Len(pointers') \notin {1, 2} => (state' = "NONE" /\ emitted' = << >>)]_vars

\* what a handler left of the notifications, without the change notifications
Gestures(notes) == SelectSeq(notes, LAMBDA n : n \in {"start", "end"})

\* C17: a wheel event while the state is not NONE changes nothing and emits
\* nothing; while the state is NONE it emits start, runs update() once, then
\* emits end, in that order, and the state is NONE afterwards
WheelOnlyWhenIdle ==
    [][Wheel(WheelEvents) =>
           IF state # "NONE"
           THEN /\ UNCHANGED <<config, state, pointers, pointerPositions, rotateStart,
                               panStart, dollyStart, spherical, sphericalDelta,
                               panOffset, scale, position, target, listening>>
                /\ emitted' = << >> /\ updates' = 0
           ELSE /\ Len(emitted') >= 2
                /\ Head(emitted') = "start"
                /\ emitted'[Len(emitted')] = "end"
                /\ Gestures(emitted') = <<"start", "end">>
                /\ updates' = 1
                /\ state' = "NONE"]_vars

WheelOnlyWhenIdleWitness ==
    /\ state = "NONE" /\ updates = 1 /\ prevented /\ pointers = <<"mouse">>
    /\ emitted = <<"start", "change", "end">>

\* the fields of the controller other than the two pending inputs of the keys
SameButPanOffset(a, b) == [a EXCEPT !.panOffset = b.panOffset] = b

SameButRotation(a, b) == [a EXCEPT !.sphericalDelta = b.sphericalDelta] = b

\* the pending rotation an arrow key with shift asks for: one step of
\* TWO_PI * rotateSpeed / clientHeight
KeyRotation(code) ==
    LET step == (TWO_PI * config.rotateSpeed) \div ClientHeight
    IN IF code = KEYS.UP THEN [theta |-> 0, phi |-> -step]
       ELSE IF code = KEYS.BOTTOM THEN [theta |-> 0, phi |-> step]
       ELSE IF code = KEYS.LEFT THEN [theta |-> -step, phi |-> 0]
       ELSE [theta |-> step, phi |-> 0]

\* C18: an arrow key without shift changes only the pending pan offset and with
\* shift only the pending rotation delta, then update() runs exactly once and the
\* default action is suppressed; any other key changes nothing, runs no update()
\* and leaves the default action alone
KeysPanOrRotate ==
    [][\A code \in AllKeys, shiftKey \in BOOLEAN :
           KeyDown({code}, {shiftKey}) =>
               LET event == [code |-> code, shiftKey |-> shiftKey]
                   before == Ctl
                   pending == keyCase(before, event)
               IN IF code \in ArrowKeys
                  THEN /\ updates' = 1 /\ prevented'
                       /\ shiftKey =>
                             /\ SameButRotation(pending, before)
                             /\ pending.sphericalDelta.theta
                                    = before.sphericalDelta.theta + KeyRotation(code).theta
                             /\ pending.sphericalDelta.phi
                                    = before.sphericalDelta.phi + KeyRotation(code).phi
                       /\ ~shiftKey =>
                             /\ SameButPanOffset(pending, before)
                             /\ pending.panOffset # before.panOffset
                  ELSE /\ updates' = 0 /\ ~prevented' /\ emitted' = << >>
                       /\ UNCHANGED <<config, state, pointers, pointerPositions,
                                      rotateStart, panStart, dollyStart, spherical,
                                      sphericalDelta, panOffset, scale, position,
                                      target, listening>>]_vars

KeysPanOrRotateWitness ==
    /\ updates = 1 /\ prevented /\ emitted = <<"change">> /\ state = "ROTATE"
    /\ target # Zero3 /\ spherical.theta # CameraFront.theta

\* the ids in the registry
Registered == {pointers[i] : i \in 1..Len(pointers)}

\* the recorded positions of the pointers other than id stay as they are
OthersKeepPosition(id) ==
    \A other \in PointerIds \ {id} : pointerPositions'[other] = pointerPositions[other]

\* C19: whatever the order in which touch contacts go down, move and are
\* released, the registry holds exactly the contacts that are down, once each,
\* and each of them maps to its own last reported position
RegistryKeyedById ==
    /\ [](/\ Cardinality(Registered) = Len(pointers)
          /\ \A id \in PointerIds : pointerPositions[id].def <=> id \in Registered)
    /\ [][\A id \in TouchPointers, p \in {Origin, Right} :
              /\ TouchDown({id}, {p}) =>
                    /\ Registered' = Registered \cup {id}
                    /\ pointerPositions'[id] = Position(p.x, p.y)
                    /\ OthersKeepPosition(id)
              /\ TouchMove({id}, {p}) =>
                    /\ Registered' = Registered
                    /\ pointerPositions'[id] = Position(p.x, p.y)
                    /\ OthersKeepPosition(id)
              /\ (PointerUp({id}) \/ PointerCancel({id})) =>
                    /\ Registered' = Registered \ {id}
                    /\ OthersKeepPosition(id)]_vars

\* A down at Origin, B down at Right, C down at Origin, then A released first
RegistryKeyedByIdWitness ==
    /\ pointers = <<"touchB", "touchC">>
    /\ pointerPositions["touchB"] = Position(Right.x, Right.y)
    /\ pointerPositions["touchC"] = Position(Origin.x, Origin.y)
    /\ ~pointerPositions["touchA"].def

\* C20: a pointer-up or pointer-cancel of a pointer that is not in the registry,
\* the empty registry included, leaves the state, the registry and the gesture
\* anchors unchanged and emits neither start nor end
StrayReleaseIgnored ==
    [][(StrayPointerUp(PointerIds) \/ StrayPointerCancel(PointerIds)) =>
           /\ UNCHANGED <<state, pointers, pointerPositions, rotateStart, panStart,
                          dollyStart>>
           /\ Gestures(emitted') = << >>]_vars

\* C21: no sequence of input events leaves the pending scale, the pending pan
\* offset or the camera pose (spherical, camera position, target) at NaN
NoUndefinedValues ==
    /\ ~IsNaN(scale) /\ ~panOffset.nan
    /\ ~spherical.nan /\ ~IsNaN(spherical.radius)
    /\ ~position.nan /\ ~IsNaN(position.radius) /\ ~target.nan

\* C22: a pointer-up that leaves exactly one pointer after a two-contact gesture
\* makes the state the single-touch state, sets the rotate anchor to the
\* remaining pointer's last recorded position, and emits no further start
ReleaseToSingleTouch ==
    [][(/\ state = "TOUCH_DOLLY_PAN"
        /\ (PointerUp(TouchPointers) \/ PointerCancel(TouchPointers))
        /\ Len(pointers') = 1)
           => /\ state' = "TOUCH_ROTATE"
              /\ rotateStart' = Vec2(pointerPositions[pointers'[1]].x,
                                     pointerPositions[pointers'[1]].y)
              /\ \A i \in 1..Len(emitted') : emitted'[i] # "start"]_vars

\* C23: in every state a handler leaves, a gesture state other than NONE has a
\* start notification dispatched since the most recent end
ActiveGestureHasStart == state # "NONE" => gestureOpen

ActiveGestureHasStartWitness ==
    /\ state = "DOLLY" /\ gestureOpen /\ updates = 1 /\ ~Notified("start")
    /\ pointers = <<"touchA", "mouse">>

\* C24: in every state a handler leaves without an error, TOUCH_DOLLY_PAN has
\* exactly two registered pointers, both with a recorded position, and
\* TOUCH_ROTATE has exactly one registered pointer
TouchStateMatchesRegistry ==
    ~threw =>
        /\ state = "TOUCH_DOLLY_PAN" =>
              /\ Len(pointers) = 2
              /\ \A i \in 1..Len(pointers) : pointerPositions[pointers[i]].def
        /\ state = "TOUCH_ROTATE" => Len(pointers) = 1

TouchStateMatchesRegistryWitness ==
    /\ state = "TOUCH_ROTATE" /\ pointers = <<"touchC">> /\ ~threw
    /\ pointerPositions["touchC"] = Position(Right.x, Right.y)
    /\ rotateStart = Vec2(Right.x, Right.y)

\* C25: in every state a handler leaves, an empty registry has state NONE, and
\* the pointermove and pointerup listeners are attached exactly while the
\* registry is not empty
ListenersFollowRegistry ==
    /\ pointers = << >> => state = "NONE"
    /\ listening <=> pointers # << >>

ListenersFollowRegistryWitness ==
    listening /\ Len(pointers) = 3 /\ state = "NONE" /\ ~threw

\* the camera distance times the contact separation raised to zoomSpeed
PinchProduct(radius, separation) ==
    Mul(radius, MathPow(Fin(separation, 1), config.zoomSpeed))

\* C26: over a two-contact gesture the dolly factor (s1 / s0) ^ zoomSpeed is
\* applied to the camera distance once for the whole change of separation,
\* however the moves are delivered: every move of the gesture keeps
\* distance * separation ^ zoomSpeed
PinchScalesOnce ==
    [][(state = "TOUCH_DOLLY_PAN" /\ dollyStart.y > 0
        /\ TouchMove(TwoTouches, PinchPositions))
           => PinchProduct(spherical'.radius, dollyStart'.y)
                  = PinchProduct(spherical.radius, dollyStart.y)]_vars

\* the distance of two angles around the circle
CircleDistance(a, b) ==
    LET d == Abs(WrapAngle(a) - WrapAngle(b)) IN IF d > PI THEN TWO_PI - d ELSE d

\* theta in (-PI, PI] held to the wrapped interval (theta >= min or theta <= max):
\* left alone inside, else moved to the nearer bound, the side of a tie chosen
\* by comparing theta with (min + max) / 2
NearerBound(theta, min, max) ==
    IF theta >= min \/ theta <= max THEN theta
    ELSE IF CircleDistance(theta, min) < CircleDistance(theta, max) THEN min
    ELSE IF CircleDistance(theta, min) > CircleDistance(theta, max) THEN max
    ELSE IF 2 * theta > min + max THEN min ELSE max

\* C27: azimuth bounds with normalized min > max are accepted, and update()
\* leaves a theta of (-PI, PI] inside the wrapped interval (PI included) where
\* it is and moves any other to the nearer of the two bounds
WrappedAzimuthClamp ==
    [][\A p \in {Origin, Right} :
          (state = "ROTATE" /\ MouseMove({p})) =>
              LET min == NormalizedAzimuth(config.minAzimuthAngle)
                  max == NormalizedAzimuth(config.maxAzimuthAngle)
                  theta == WrapAngle(position.theta)
                               - (TWO_PI * (p.x - rotateStart.x) * config.rotateSpeed)
                                     \div ClientHeight
              IN (min > max /\ -PI < theta /\ theta <= PI) =>
                     /\ ~threw' /\ updates' = 1
                     /\ getAzimuthalAngle(Ctl)' = NearerBound(theta, min, max)]_vars

WrappedAzimuthClampWitness ==
    /\ config = WrappedBack /\ ~configDirty /\ updates = 1 /\ state = "ROTATE"
    /\ spherical.theta = PI

\* a <= b for two distances, over their common denominator
AtMost(a, b) ==
    /\ ~IsNaN(a) /\ ~IsNaN(b)
    /\ (IsFin(a) /\ IsFin(b)) =>
           LET g == Gcd(a.d, b.d) IN a.n * (b.d \div g) <= b.n * (a.d \div g)
    /\ IsFin(b) => IsFin(a)

\* C28: an honoured wheel event with deltaY < 0 leaves getDistance() at or below
\* what it was, one with deltaY > 0 at or above, and one with deltaY = 0 where
\* it was, the distance staying in [minDistance, maxDistance]
WheelDirection ==
    [][\A e \in WheelEvents :
          (state = "NONE" /\ Wheel({e})) =>
              LET before == getDistance(Ctl)
                  after == getDistance(Ctl)'
              IN /\ e.deltaY < 0 => AtMost(after, before)
                 /\ e.deltaY > 0 => AtMost(before, after)
                 /\ e.deltaY = 0 => after = before
                 /\ AtMost(config.minDistance, after)
                 /\ AtMost(after, config.maxDistance)]_vars

\* two steps in from 0.5 under the default options
WheelDirectionWitness ==
    /\ config = Defaults /\ getDistance(Ctl) = Fin(361, 80)
    /\ emitted = <<"start", "change", "end">>

ClaimedDelta(e) ==
    e.deltaY * (CASE e.deltaMode = 1 -> 16 [] e.deltaMode = 2 -> 100 [] OTHER -> 1)
             * (IF e.ctrlKey THEN 10 ELSE 1)

ClaimedZoom(zoomSpeed, delta) == MathPow(Fin(19, 20), (zoomSpeed * Abs(delta)) \div 100)

WheelTable == {WheelEvent(d, m, k) : d \in -2..2, m \in 0..3, k \in BOOLEAN}

\* C29: the delta handed to the zoom computation is deltaY times 16 in line mode,
\* times 100 in page mode, times 1 otherwise, and times 10 more with ctrlKey;
\* an honoured wheel event multiplies (deltaY < 0) or divides (deltaY > 0) the
\* distance by 0.95^(zoomSpeed * |delta| / 100), a factor of zoomSpeed and the
\* absolute value of that delta alone, before the clamp to the distance bounds
WheelDeltaNormalized ==
    /\ [](\A e \in WheelTable \cup ModeEvents : newEvent(e).deltaY = ClaimedDelta(e))
    /\ [][\A e \in ModeEvents :
              (state = "NONE" /\ Wheel({e})) =>
                  LET before == getDistance(Ctl)
                      factor == ClaimedZoom(config.zoomSpeed, ClaimedDelta(e))
                  IN getDistance(Ctl)' =
                         clampDistance(Ctl, IF e.deltaY < 0 THEN Mul(before, factor)
                                            ELSE Div(before, factor))]_vars

WheelDeltaNormalizedWitness ==
    /\ config = WheelBand /\ getDistance(Ctl) = Fin(19, 4)
    /\ emitted = <<"start", "change", "end">>

\* the polar angle update() leaves for a requested one
PolarKept(phi) ==
    LET inner == IF phi > config.maxPolarAngle THEN config.maxPolarAngle ELSE phi
        held == IF inner < config.minPolarAngle THEN config.minPolarAngle ELSE inner
    IN IF held < SafeEps THEN SafeEps ELSE IF held > PI - SafeEps THEN PI - SafeEps ELSE held

\* a rotate drag of one pointer to p turns the azimuth by sign * 2 pi dx rotateSpeed
\* / clientHeight and the polar angle by sign * 2 pi dy rotateSpeed / clientHeight
DragTurns(sign) ==
    \A p \in DragPositions :
        (/\ Len(pointers) = 1
         /\ \/ state = "ROTATE" /\ MouseMove({p})
            \/ state = "TOUCH_ROTATE" /\ TouchMove({"touchA"}, {p})) =>
            LET read == setFromVector3(Ctl.position)
                dx == p.x - rotateStart.x
                dy == p.y - rotateStart.y
                turnX == (sign * TWO_PI * dx * config.rotateSpeed) \div ClientHeight
                turnY == (sign * TWO_PI * dy * config.rotateSpeed) \div ClientHeight
            IN /\ getAzimuthalAngle(Ctl)' = read.theta + turnX
               /\ getPolarAngle(Ctl)' = PolarKept(read.phi + turnY)
               /\ dy = 0 => getPolarAngle(Ctl)' = read.phi

HeldDistance(requested) ==
    IF ~AtMost(requested, config.maxDistance) THEN config.maxDistance
    ELSE IF ~AtMost(config.minDistance, requested) THEN config.minDistance
    ELSE requested

\* C31: update() sets the distance to exactly the requested distance held to
\* [minDistance, maxDistance]: a pinch from separation s0 to s1 requests distance *
\* s0 / s1; the distance never leaves the interval, a request beyond maxDistance
\* gives exactly maxDistance, and a dolly-out at maxDistance leaves it there
DistanceSaturates ==
    /\ [](AtMost(config.minDistance, getDistance(Ctl))
           /\ AtMost(getDistance(Ctl), config.maxDistance))
    /\ [][\A p \in {Right, Far} :
              (state = "TOUCH_DOLLY_PAN" /\ pointers = <<"touchA", "touchB">>
               /\ TouchMove({"touchB"}, {p})) =>
                  LET before == getDistance(Ctl)
                      requested == Mul(before, Div(Fin(dollyStart.y, 1), Fin(p.x, 1)))
                  IN /\ getDistance(Ctl)' = HeldDistance(requested)
                     /\ (before = config.maxDistance /\ p.x < dollyStart.y)
                            => getDistance(Ctl)' = config.maxDistance]_vars

DistanceSaturatesWitness ==
    /\ getDistance(Ctl) = Fin(700, 1) /\ config = Saturating
    /\ state = "TOUCH_DOLLY_PAN" /\ dollyStart.y = 100 /\ updates = 1

\* the camera is at target + offset with camera.up = +Y: its height is target.y +
\* radius * cos(phi), at least target.y exactly when phi <= PI / 2
CameraAboveTarget == ~target.nan /\ ~position.nan /\ position.phi <= PI \div 2

\* C32: with maxPolarAngle <= PI / 2, after a handler that ran update() the camera
\* is at least as high as the target and the target at least MIN_TARGET_HEIGHT
CameraAboveGround ==
    (updates >= 1 /\ config.maxPolarAngle <= PI \div 2) =>
        (CameraAboveTarget /\ target.y >= MIN_TARGET_HEIGHT)

\* C33: a pointerdown of a pointer that is in the registry leaves the registry,
\* the gesture state, the recorded positions and the anchors as they are and
\* notifies nothing, so that no id is in the registry twice; a pointerup or
\* pointercancel takes the id out of the registry and its recorded position with it
InsertIfAbsent ==
    /\ [](Cardinality(Registered) = Len(pointers))
    /\ [][RepeatPointerDown(RepeatPointers, {Origin, Right}, RotateButtons) =>
              /\ UNCHANGED <<pointers, pointerPositions, state, listening,
                             rotateStart, panStart, dollyStart>>
              /\ emitted' = << >> /\ updates' = 0]_vars
    /\ [][\A id \in RepeatPointers :
              (PointerUp({id}) \/ PointerCancel({id})) =>
                  (id \notin Registered' /\ ~pointerPositions'[id].def)]_vars

InsertIfAbsentWitness ==
    /\ pointers = <<"touchA", "touchB">> /\ state = "TOUCH_DOLLY_PAN"
    /\ pointerPositions["touchB"] = Position(100, 0)
    /\ emitted = << >> /\ updates = 0 /\ ~hostError

MouseGestures == {"ROTATE", "DOLLY", "PAN"}

TouchGestures == {"TOUCH_ROTATE", "TOUCH_PAN", "TOUCH_DOLLY_PAN", "TOUCH_DOLLY_ROTATE"}

\* C34: after every handler the pending rotation, pan offset and scale are neutral;
\* a mouse move of a mouse gesture, a touch move of a touch gesture that ends
\* without an error, a wheel event that is honoured and an arrow key each run
\* update() before they return; a mouse move in state NONE runs no update() and
\* leaves the pose alone
NothingPendingBetweenEvents ==
    /\ [](/\ sphericalDelta = [theta |-> 0, phi |-> 0]
           /\ panOffset = Zero3
           /\ scale = One)
    /\ [][((state = "NONE" /\ Wheel(WheelEvents)) => updates' = 1)
           /\ (KeyDown(ArrowKeys, BOOLEAN) => updates' = 1)
           /\ \A p \in {Origin, Right} :
                 /\ (state \in MouseGestures /\ MouseMove({p})) => updates' = 1
                 /\ (state \in TouchGestures /\ TouchMove(TwoTouches, {p}) /\ ~threw')
                        => updates' = 1
                 /\ (state = "NONE" /\ MouseMove({p})) =>
                        (updates' = 0 /\ emitted' = << >>
                         /\ UNCHANGED <<spherical, position, target, state>>)]_vars

NothingPendingBetweenEventsWitness ==
    /\ state = "PAN" /\ pointers = <<"mouse">> /\ panStart = Right
    /\ updates = 1 /\ ~idle /\ ~threw

\* C35: a wheel event and a keydown leave the gesture state, the pointer registry
\* and the recorded positions as they are, in every state; an arrow key pressed
\* during a pointer gesture is processed (update() runs) and notifies neither
\* start nor end; no handler changes the cursor point
WheelAndKeysKeepGesture ==
    [][/\ (Wheel(WheelEvents) \/ KeyDown(ArrowKeys, BOOLEAN))
              => UNCHANGED <<state, pointers, pointerPositions, listening>>
       /\ KeyDown(ArrowKeys, BOOLEAN)
              => (updates' = 1 /\ ~Notified("start")' /\ ~Notified("end")')
       /\ config'.cursor = config.cursor]_vars

WheelAndKeysKeepGestureWitness ==
    /\ state = "ROTATE" /\ pointers = <<"mouse">> /\ updates = 1 /\ prevented

\* C36: no sequence of input events reaches the gesture states TOUCH_PAN and
\* TOUCH_DOLLY_ROTATE: one contact always rotates and two always dolly and pan
TouchBehavioursFixed == state \notin {"TOUCH_PAN", "TOUCH_DOLLY_ROTATE"}

TouchBehavioursFixedWitness ==
    /\ state = "TOUCH_ROTATE" /\ pointers = <<"touchB">> /\ emitted = <<"start">>
    /\ rotateStart = Right

\* C37: with exactly one azimuth bound finite update() leaves theta unrestricted:
\* a rotate move turns the azimuth the camera has by the whole angle of the drag,
\* on either side of the finite bound
OneBoundRestrictsNothing ==
    [][\A p \in {Origin, Right} :
           (/\ config.minAzimuthAngle.fin # config.maxAzimuthAngle.fin
            /\ state = "ROTATE" /\ MouseMove({p})) =>
               getAzimuthalAngle(Ctl)' =
                   setFromVector3(Ctl.position).theta
                       - (TWO_PI * (p.x - rotateStart.x) * config.rotateSpeed) \div ClientHeight]_vars

OneBoundRestrictsNothingWitness ==
    /\ config = OnlyMax /\ state = "ROTATE" /\ updates = 1
    /\ getAzimuthalAngle(Ctl) = 3 * (PI \div 4)

====
